---- MODULE Spec2Model ----
(***************************************************************************)
(* Model of scripts/conp_to_nidm_terms/functions.py: collect_values,       *)
(* find_duplicates, generate_jsonld_files and get_api_response.            *)
(*                                                                         *)
(* Python strings that the code transforms (terms, curies, property keys   *)
(* when title-cased) are sequences of one-character strings, so lower(),   *)
(* title(), replace() and isalnum() are computed character by character.   *)
(* Python sets are duplicate-free sequences (one iteration order).         *)
(***************************************************************************)
EXTENDS Integers, Sequences, FiniteSets, TLC

VARIABLES
    pc,                \* position of the running function
    walk,              \* os.walk(PROJECTS): walk[i] <=> "DATS.json" in files of directory i
    flags,             \* keyword arguments of collect_values
    idx,               \* number of directories already visited
    acc,               \* the six *_values sets of collect_values, by report key
    dats_files_count,  \* collect_values local
    lastFile,          \* the descriptor most recently loaded by collect_values
    ret,               \* what collect_values returned
    report,            \* argument of find_duplicates / generate_jsonld_files
    errors,            \* list returned by find_duplicates
    use_api,           \* argument of generate_jsonld_files
    template,          \* JSONLD_TEMPLATE
    todo,              \* (key, term) pairs the generator loop has still to visit
    terms_counter,     \* Counter of generate_jsonld_files
    dirs,              \* property directories that exist under CURRENT_WORKING_DIR
    files,             \* output files: path -> document
    writes,            \* number of open(..., "w") calls made
    last,              \* the latest iteration of the generator loop
    printed,           \* the counts generate_jsonld_files printed to standard output
    apiIn,             \* a call of get_api_response: key file, HTTP outcome, response
    apiOut             \* its outcome

vars == <<pc, walk, flags, idx, acc, dats_files_count, lastFile, ret, report, errors,
          use_api, template, todo, terms_counter, dirs, files, writes, last, printed,
          apiIn, apiOut>>

collectVars == <<walk, flags, idx, acc, dats_files_count, lastFile, ret>>
genVars == <<use_api, template, todo, terms_counter, dirs, files, writes, last, printed>>
apiVars == <<apiIn, apiOut>>

(***************************************************************************)
(* Bounds                                                                  *)
(***************************************************************************)
MaxDirs == 3        \* directories under PROJECTS
MaxDupTerms == 3    \* values in a report handed to find_duplicates
MaxGenTerms == 2    \* values in a report handed to generate_jsonld_files
MaxIds == 2         \* entries of data.existing_ids in a lookup response

(***************************************************************************)
(* Characters and str methods                                              *)
(***************************************************************************)
UpperChars == <<"A","B","C","D","E","F","G","H","I","J","K","L","M",
                "N","O","P","Q","R","S","T","U","V","W","X","Y","Z">>
LowerChars == <<"a","b","c","d","e","f","g","h","i","j","k","l","m",
                "n","o","p","q","r","s","t","u","v","w","x","y","z">>
DigitChars == <<"0","1","2","3","4","5","6","7","8","9">>

Range(s) == {s[i] : i \in DOMAIN s}

IsUpper(c) == c \in Range(UpperChars)
IsLower(c) == c \in Range(LowerChars)
IsCased(c) == IsUpper(c) \/ IsLower(c)
IsDigit(c) == c \in Range(DigitChars)

\* str.isalnum() of one character
IsAlnum(c) == IsCased(c) \/ IsDigit(c)

LowerChar(c) ==
    IF IsUpper(c) THEN LowerChars[CHOOSE i \in DOMAIN UpperChars : UpperChars[i] = c] ELSE c

UpperChar(c) ==
    IF IsLower(c) THEN UpperChars[CHOOSE i \in DOMAIN LowerChars : LowerChars[i] = c] ELSE c

\* str.lower()
Lower(s) == [i \in DOMAIN s |-> LowerChar(s[i])]

\* str.upper()
Upper(s) == [i \in DOMAIN s |-> UpperChar(s[i])]

\* str.title(): a cased character is upper-cased when the character before it is
\* not cased (or there is none), lower-cased otherwise
Title(s) ==
    [i \in DOMAIN s |->
        IF i > 1 /\ IsCased(s[i - 1]) THEN LowerChar(s[i]) ELSE UpperChar(s[i])]

\* str.replace(c, "")
RemoveChar(s, c) == SelectSeq(s, LAMBDA x : x # c)

\* sub in s
Contains(sub, s) ==
    \E k \in 0..(Len(s) - Len(sub)) : \A j \in 1..Len(sub) : s[k + j] = sub[j]

(***************************************************************************)
(* Terms found in descriptor files                                         *)
(***************************************************************************)
tMale == <<"M","a","l","e">>
tmale == <<"m","a","l","e">>
tMALE == <<"M","A","L","E">>
tMri == <<"M","R","I">>
tMitLicense == <<"M","I","T"," ","L","i","c","e","n","s","e">>
tCcBy40 == <<"C","C","-","B","Y"," ","4",".","0">>
tADotB == <<"a",".","b">>
tASpaceB == <<"a"," ","b">>
tASpaceBUpper == <<"A"," ","B">>

(***************************************************************************)
(* Python set, as a duplicate-free sequence                                *)
(***************************************************************************)
\* a list where the code has a set: list.append(v)
ListAppend(s, v) == Append(s, v)

\* set.add(v)
SetAdd(s, v) == IF \E i \in DOMAIN s : s[i] = v THEN s ELSE Append(s, v)

\* set.update(vs)
RECURSIVE SetUpdate(_, _)
SetUpdate(s, vs) == IF vs = <<>> THEN s ELSE SetUpdate(SetAdd(s, Head(vs)), Tail(vs))

\* set(vs)
SetOf(vs) == SetUpdate(<<>>, vs)

\* concatenation of a sequence of sequences
RECURSIVE Flatten(_)
Flatten(xss) == IF xss = <<>> THEN <<>> ELSE Head(xss) \o Flatten(Tail(xss))

(***************************************************************************)
(* collect_values                                                          *)
(***************************************************************************)
\* the keys of the report, in the order of the zip()
Keys == <<"privacy", "licenses", "types", "is_about", "formats", "keywords">>
KeySet == Range(Keys)

datatype_schemas == <<"information", "method", "platform", "instrument">>

\* the descriptor field each report key reads with dats_data[...]
FieldOf(key) ==
    CASE key = "privacy" -> "privacy"
      [] key = "licenses" -> "licenses"
      [] key = "types" -> "types"
      [] key = "is_about" -> "isAbout"
      [] key = "formats" -> "distributions"
      [] key = "keywords" -> "keywords"

\* DATS.json documents a project directory may hold
dEmpty ==
    [types |-> <<>>, licenses |-> <<>>, distributions |-> <<>>, keywords |-> <<>>]
dFull ==
    [privacy |-> tMale,
     types |-> <<[information |-> [value |-> tMri], method |-> [value |-> tMale]],
                 [platform |-> [value |-> tMri]]>>,
     licenses |-> <<[name |-> tCcBy40], [name |-> tCcBy40]>>,
     isAbout |-> <<[name |-> tMale], [value |-> tmale], [identifier |-> tMri]>>,
     distributions |-> <<[formats |-> <<tADotB, tASpaceB>>], [access |-> tMri]>>,
     keywords |-> <<[value |-> tMri], [value |-> tMALE]>>]
dCase ==
    [privacy |-> tmale,
     types |-> <<[instrument |-> [value |-> tMale]]>>,
     licenses |-> <<[name |-> tMitLicense]>>,
     distributions |-> <<[formats |-> <<tADotB>>]>>,
     keywords |-> <<[value |-> tMALE], [value |-> tMale]>>]
dNoTypes ==
    [licenses |-> <<[name |-> tMitLicense]>>, distributions |-> <<>>,
     keywords |-> <<[value |-> tMri]>>]
dNoLicenses ==
    [privacy |-> tMALE, types |-> <<>>, distributions |-> <<>>, keywords |-> <<>>]
dNoDistributions ==
    [types |-> <<[method |-> [value |-> tMri]]>>, licenses |-> <<>>,
     keywords |-> <<>>]
dNoKeywords ==
    [types |-> <<>>, licenses |-> <<>>, isAbout |-> <<[value |-> tMri]>>,
     distributions |-> <<[formats |-> <<tASpaceB>>]>>]
dLicenseNoName ==
    [types |-> <<>>, licenses |-> <<[title |-> tMitLicense]>>, distributions |-> <<>>,
     keywords |-> <<>>]

Descriptors ==
    {dEmpty, dFull, dCase, dNoTypes, dNoLicenses, dNoDistributions, dNoKeywords,
     dLicenseNoName}

\* every directory taken to hold a descriptor
HasDatsAlways(entry) == TRUE

\* "DATS.json" in files
HasDats(entry) == entry

\* [typ[t]["value"] for t in datatype_schemas if t in typ]
TypValues(typ) ==
    LET present == SelectSeq(datatype_schemas, LAMBDA t : t \in DOMAIN typ)
    IN  [i \in DOMAIN present |-> typ[present[i]].value]

\* the name or the value of an isAbout entry, nothing when it has neither
IsAboutValue(e) ==
    IF "name" \in DOMAIN e THEN <<e.name>>
    ELSE IF "value" \in DOMAIN e THEN <<e.value>>
    ELSE <<>>

\* the values of a distribution's formats, nothing when it has none
FormatsOf(dist) == IF "formats" \in DOMAIN dist THEN dist.formats ELSE <<>>

\* the KeyError raised by dats_data["types"] and typ[t]["value"]
TypesRaises(d) ==
    \/ "types" \notin DOMAIN d
    \/ \E i \in DOMAIN d.types : \E t \in Range(datatype_schemas) \cap DOMAIN d.types[i] :
           "value" \notin DOMAIN d.types[i][t]

\* the KeyError raised by dats_data["licenses"] and l["name"]
LicensesRaises(d) ==
    \/ "licenses" \notin DOMAIN d
    \/ \E i \in DOMAIN d.licenses : "name" \notin DOMAIN d.licenses[i]

\* the KeyError raised by dats_data["distributions"]
FormatsRaises(d) == "distributions" \notin DOMAIN d

\* the KeyError raised by dats_data["keywords"] and k["value"]
KeywordsRaises(d) ==
    \/ "keywords" \notin DOMAIN d
    \/ \E i \in DOMAIN d.keywords : "value" \notin DOMAIN d.keywords[i]

\* the required fields read whether or not their property is enabled
FileRaisesUnconditional(d, fl) ==
    TypesRaises(d) \/ LicensesRaises(d) \/ FormatsRaises(d) \/ KeywordsRaises(d)

\* processing descriptor d under the enabled properties fl raises
FileRaises(d, fl) ==
    \/ fl["types"] /\ TypesRaises(d)
    \/ fl["licenses"] /\ LicensesRaises(d)
    \/ fl["formats"] /\ FormatsRaises(d)
    \/ fl["keywords"] /\ KeywordsRaises(d)

\* the six sets after the body of the loop has run on descriptor d
ProcessFile(a, d, fl) ==
    [a EXCEPT
        !["privacy"] =
            IF fl["privacy"] /\ "privacy" \in DOMAIN d THEN SetAdd(@, d.privacy) ELSE @,
        !["types"] =
            IF fl["types"]
            THEN SetUpdate(@, Flatten([i \in DOMAIN d.types |-> SetOf(TypValues(d.types[i]))]))
            ELSE @,
        !["licenses"] =
            IF fl["licenses"]
            THEN SetUpdate(@, SetOf([i \in DOMAIN d.licenses |-> d.licenses[i].name]))
            ELSE @,
        !["is_about"] =
            IF fl["is_about"] /\ "isAbout" \in DOMAIN d
            THEN SetUpdate(@, Flatten([i \in DOMAIN d.isAbout |-> IsAboutValue(d.isAbout[i])]))
            ELSE @,
        !["formats"] =
            IF fl["formats"]
            THEN SetUpdate(@, Flatten([i \in DOMAIN d.distributions |->
                                          SetOf(FormatsOf(d.distributions[i]))]))
            ELSE @,
        !["keywords"] =
            IF fl["keywords"]
            THEN SetUpdate(@, SetOf([i \in DOMAIN d.keywords |-> d.keywords[i].value]))
            ELSE @]

\* report[key] = {"count": len(value), "values": list(value)}
ReportEntry(value) == [count |-> Len(value), values |-> value]

\* the report: one entry per non-empty set
BuildReport(a) == [k \in {k \in KeySet : a[k] # <<>>} |-> ReportEntry(a[k])]

NoReturn == [returned |-> FALSE]
NoFile == [none |-> TRUE]
Idle == "idle"

\* a directory without DATS.json
SkipDir ==
    /\ pc = "walk"
    /\ idx < Len(walk)
    /\ ~HasDats(walk[idx + 1])
    /\ idx' = idx + 1
    /\ UNCHANGED <<pc, walk, flags, acc, dats_files_count, lastFile, ret>>
    /\ UNCHANGED <<report, errors, genVars, apiVars>>

\* a directory with DATS.json: count it, load it, extract the enabled properties
\* (a KeyError leaves the function: its sets are never read again, so they are
\* kept as they were before the file)
ReadDats ==
    /\ pc = "walk"
    /\ idx < Len(walk)
    /\ HasDats(walk[idx + 1])
    /\ \E d \in Descriptors :
        /\ dats_files_count' = dats_files_count + 1
        /\ lastFile' = d
        /\ idx' = idx + 1
        /\ IF FileRaises(d, flags)
           THEN pc' = "raised" /\ acc' = acc
           ELSE pc' = pc /\ acc' = ProcessFile(acc, d, flags)
    /\ UNCHANGED <<walk, flags, ret>>
    /\ UNCHANGED <<report, errors, genVars, apiVars>>

\* the walk is over: build the report and return it with the count
ReturnReport ==
    /\ pc = "walk"
    /\ idx = Len(walk)
    /\ ret' = [returned |-> TRUE, report |-> BuildReport(acc), count |-> dats_files_count]
    /\ pc' = "returned"
    /\ UNCHANGED <<walk, flags, idx, acc, dats_files_count, lastFile>>
    /\ UNCHANGED <<report, errors, genVars, apiVars>>

Walks == UNION {[1..n -> BOOLEAN] : n \in 0..MaxDirs}

InitCollect ==
    /\ pc = "walk"
    /\ walk \in Walks
    /\ flags \in [KeySet -> BOOLEAN]
    /\ idx = 0
    /\ acc = [k \in KeySet |-> <<>>]
    /\ dats_files_count = 0
    /\ lastFile = NoFile
    /\ ret = NoReturn
    /\ report = Idle /\ errors = Idle
    /\ use_api = Idle /\ template = Idle /\ todo = Idle /\ terms_counter = Idle
    /\ dirs = Idle /\ files = Idle /\ writes = Idle /\ last = Idle /\ printed = Idle
    /\ apiIn = Idle /\ apiOut = Idle

NextCollect == SkipDir \/ ReadDats \/ ReturnReport

SpecCollect == InitCollect /\ [][NextCollect]_vars

(***************************************************************************)
(* find_duplicates                                                         *)
(***************************************************************************)
\* the characters of a report key
KeyChars(key) ==
    CASE key = "privacy" -> <<"p","r","i","v","a","c","y">>
      [] key = "licenses" -> <<"l","i","c","e","n","s","e","s">>
      [] key = "types" -> <<"t","y","p","e","s">>
      [] key = "is_about" -> <<"i","s","_","a","b","o","u","t">>
      [] key = "formats" -> <<"f","o","r","m","a","t","s">>
      [] key = "keywords" -> <<"k","e","y","w","o","r","d","s">>

\* terms filed under their original spelling
NormalFormRaw(term) == term

\* the dict key under which find_duplicates files a term
NormalForm(term) == Lower(term)

\* normilized_terms after the loop over terms; the dict, in insertion order, is a
\* sequence of [k |-> lowercased term, v |-> the terms filed under it]
RECURSIVE Normalize(_, _)
Normalize(n, terms) ==
    IF terms = <<>> THEN n
    ELSE LET term == Head(terms)
             hit == {i \in DOMAIN n : n[i].k = NormalForm(term)}
         IN  Normalize(IF hit # {}
                       THEN [n EXCEPT ![CHOOSE i \in hit : TRUE].v = Append(@, term)]
                       ELSE Append(n, [k |-> NormalForm(term), v |-> <<term>>]),
                       Tail(terms))

\* f"{key.title()} duplicate terms: {v}"
ErrorMessage(key, v) == [property |-> Title(KeyChars(key)), terms |-> v]

\* the messages find_duplicates appends for one key of the report
DuplicatesOf(key, entry) ==
    LET n == Normalize(<<>>, entry.values)
        shared == SelectSeq(n, LAMBDA e : Len(e.v) > 1)
    IN  IF entry.count = Len(n)
        THEN <<>>
        ELSE [i \in DOMAIN shared |-> ErrorMessage(key, shared[i].v)]

\* the list find_duplicates returns
FindDuplicatesOf(r) ==
    LET present == SelectSeq(Keys, LAMBDA k : k \in DOMAIN r)
    IN  Flatten([i \in DOMAIN present |-> DuplicatesOf(present[i], r[present[i]])])

FindDuplicates ==
    /\ pc = "find"
    /\ errors' = FindDuplicatesOf(report)
    /\ pc' = "found"
    /\ UNCHANGED <<report, collectVars, genVars, apiVars>>

\* reports: the values of each key are the terms paired with it in a sequence of
\* (key, term) pairs
ValuesIn(items, k) ==
    LET paired == SelectSeq(items, LAMBDA it : it[1] = k)
    IN  [i \in DOMAIN paired |-> paired[i][2]]
KeysIn(items) == {items[i][1] : i \in DOMAIN items}
ItemSeqs(keys, terms, n) == UNION {[1..m -> keys \X terms] : m \in 0..n}

DupKeys == {"privacy", "is_about", "keywords"}
DupTerms == {tMale, tmale, tMALE, tMri}

\* a report whose count is len(values), except for the keys in stale, whose count
\* is one less
ReportOf(items, stale) ==
    [k \in KeysIn(items) |->
        [count |-> Len(ValuesIn(items, k)) - (IF k \in stale THEN 1 ELSE 0),
         values |-> ValuesIn(items, k)]]

InitDup ==
    /\ pc = "find"
    /\ \E items \in ItemSeqs(DupKeys, DupTerms, MaxDupTerms) :
         \E stale \in SUBSET KeysIn(items) : report = ReportOf(items, stale)
    /\ errors = <<>>
    /\ walk = Idle /\ flags = Idle /\ idx = Idle /\ acc = Idle
    /\ dats_files_count = Idle /\ lastFile = Idle /\ ret = Idle
    /\ use_api = Idle /\ template = Idle /\ todo = Idle /\ terms_counter = Idle
    /\ dirs = Idle /\ files = Idle /\ writes = Idle /\ last = Idle /\ printed = Idle
    /\ apiIn = Idle /\ apiOut = Idle

NextDup == FindDuplicates

SpecDup == InitDup /\ [][NextDup]_vars

(***************************************************************************)
(* get_api_response                                                        *)
(***************************************************************************)
None == "None"
NoMatchFound == "no match found"
EmptyStr == ""

\* "ILX:".upper()
IlxMarker == Upper(<<"I","L","X",":">>)

\* entries of data.existing_ids
eIlx1 == [curie |-> <<"I","L","X",":","1">>, iri |-> "iri1"]
eIlx2 == [curie |-> <<"x","I","L","X",":","2">>, iri |-> "iri2"]
eIlxLower == [curie |-> <<"i","l","x",":","3">>, iri |-> "iri3"]
eNlx == [curie |-> <<"N","L","X",":","4">>, iri |-> "iri4"]
eNoCurie == [iri |-> "iri5"]
eNoIri == [curie |-> <<"I","L","X",":","6">>]
ApiEntries == {eIlx1, eIlx2, eIlxLower, eNlx, eNoCurie, eNoIri}

\* "curie" in i and "ILX:".upper() in i["curie"]
Matches(i) == "curie" \in DOMAIN i /\ Contains(IlxMarker, i.curie)

\* the loop stopping at the first matching entry
RECURSIVE MatchLoopFirst(_, _)
MatchLoopFirst(match, ids) ==
    IF ids = <<>> THEN match
    ELSE IF Matches(Head(ids)) THEN Head(ids).iri ELSE MatchLoopFirst(match, Tail(ids))

\* match after the loop over existing_ids
RECURSIVE MatchLoop(_, _)
MatchLoop(match, ids) ==
    IF ids = <<>> THEN match
    ELSE MatchLoop(IF Matches(Head(ids)) THEN Head(ids).iri ELSE match, Tail(ids))

\* the KeyError of i["iri"]
LoopRaises(ids) == \E n \in DOMAIN ids : Matches(ids[n]) /\ "iri" \notin DOMAIN ids[n]

Returns(v, failure) == [kind |-> "return", value |-> v, failure |-> failure]
Raises(exc) == [kind |-> "raise", failure |-> exc]

\* get_api_response without its except clause
GetApiResponseNoCatch(call) ==
    IF call.api_key = EmptyStr THEN Raises("Exception")
    ELSE IF call.http = "ConnectionError" THEN Raises("ConnectionError")
    ELSE IF call.http = "HTTPError" THEN Raises("HTTPError")
    ELSE IF call.existing_ids # <<>>
         THEN IF LoopRaises(call.existing_ids) THEN Raises("KeyError")
              ELSE Returns(MatchLoop(EmptyStr, call.existing_ids), "none")
         ELSE Returns(NoMatchFound, "none")

\* get_api_response on a call [api_key, http, existing_ids]: http is what
\* requests.get and raise_for_status do
GetApiResponse(call) ==
    IF call.api_key = EmptyStr THEN Raises("Exception")
    ELSE IF call.http = "ConnectionError" THEN Raises("ConnectionError")
    ELSE IF call.http = "HTTPError" THEN Returns(None, "HTTPError")
    ELSE IF call.existing_ids # <<>>
         THEN IF LoopRaises(call.existing_ids) THEN Raises("KeyError")
              ELSE Returns(MatchLoop(EmptyStr, call.existing_ids), "none")
         ELSE Returns(NoMatchFound, "none")

HttpOutcomes == {"ok", "HTTPError", "ConnectionError"}
ApiKeys == {EmptyStr, "key"}
Responses == UNION {[1..n -> ApiEntries] : n \in 0..MaxIds}
ApiCalls == [api_key : ApiKeys, http : HttpOutcomes, existing_ids : Responses]

NoOut == [kind |-> "pending"]

CallApi ==
    /\ pc = "call"
    /\ apiOut' = GetApiResponse(apiIn)
    /\ pc' = "done"
    /\ UNCHANGED <<apiIn, report, errors, collectVars, genVars>>

InitApi ==
    /\ pc = "call"
    /\ apiIn \in ApiCalls
    /\ apiOut = NoOut
    /\ walk = Idle /\ flags = Idle /\ idx = Idle /\ acc = Idle
    /\ dats_files_count = Idle /\ lastFile = Idle /\ ret = Idle
    /\ report = Idle /\ errors = Idle
    /\ use_api = Idle /\ template = Idle /\ todo = Idle /\ terms_counter = Idle
    /\ dirs = Idle /\ files = Idle /\ writes = Idle /\ last = Idle /\ printed = Idle

NextApi == CallApi

SpecApi == InitApi /\ [][NextApi]_vars

(***************************************************************************)
(* generate_jsonld_files                                                   *)
(***************************************************************************)
EmptyFn == [x \in {} |-> x]

\* d[k] = v
SetField(d, k, v) == [x \in DOMAIN d \cup {k} |-> IF x = k THEN v ELSE d[x]]

\* template.jsonld: with and without a sameAs key
TemplatePlain == [context |-> "nidm", label |-> <<>>]
TemplateSameAs == [context |-> "nidm", label |-> <<>>, sameAs |-> "template"]
Templates == {TemplatePlain, TemplateSameAs}

\* Counter.update((k,))
CounterUpdate(c, k) ==
    IF k \in DOMAIN c THEN [c EXCEPT ![k] = @ + 1] ELSE (k :> 1) @@ c

\* the key under which the generator counts a term
CounterKey(key, term) == Lower(term)

\* the lookups the generator may meet for one term
GenResponses == {<<>>, <<eIlx1>>, <<eNlx>>, <<eNoIri>>}
GenApiCalls == [api_key : ApiKeys, http : HttpOutcomes, existing_ids : GenResponses]

NoLookup == [kind |-> "return", failure |-> "disabled"]

\* the label left in the term's own case
BuildDescriptionRawLabel(term, useApi, tmpl, result) ==
    LET labelled == SetField(tmpl, "label", term)
    IN  IF useApi THEN SetField(labelled, "sameAs", result.value) ELSE labelled

\* sameAs assigned only when the lookup returned a value
BuildDescriptionSkipNone(term, useApi, tmpl, result) ==
    LET labelled == SetField(tmpl, "label", Lower(term))
    IN  IF useApi /\ result.value # None
        THEN SetField(labelled, "sameAs", result.value)
        ELSE labelled

\* jsonld_description: the copy of the template with its label, and with sameAs
\* when the lookup is enabled (result is what get_api_response returned)
BuildDescription(term, useApi, tmpl, result) ==
    LET labelled == SetField(tmpl, "label", Lower(term))
    IN  IF useApi THEN SetField(labelled, "sameAs", result.value) ELSE labelled

\* the filename without the isalnum filter
FilenameKeepPunctuation(term) == RemoveChar(Title(term), " ")

\* "".join(x for x in term.title().replace(" ", "") if x.isalnum())
Filename(term) == SelectSeq(RemoveChar(Title(term), " "), IsAlnum)

JsonldExt == <<".","j","s","o","n","l","d">>

\* os.path.join(CURRENT_WORKING_DIR, key, filename) + ".jsonld", relative to
\* CURRENT_WORKING_DIR
OutputPath(key, term) == <<key, Filename(term) \o JsonldExt>>

\* the (key, term) pairs of report.items(), in iteration order
Items(r) ==
    LET present == SelectSeq(Keys, LAMBDA k : k \in DOMAIN r)
    IN  Flatten([i \in DOMAIN present |->
                    [j \in DOMAIN r[present[i]].values |->
                        <<present[i], r[present[i]].values[j]>>]])

NoIteration == [lookup |-> "nothing", wrote |-> FALSE]

\* one iteration of the loop over the terms of the report
GenerateTerm ==
    /\ pc = "generate"
    /\ todo # <<>>
    /\ LET key == Head(todo)[1]
           term == Head(todo)[2]
       IN  /\ terms_counter' = CounterUpdate(terms_counter, CounterKey(key, term))
           /\ todo' = Tail(todo)
           /\ \E call \in GenApiCalls :
                LET result == IF use_api THEN GetApiResponse(call) ELSE NoLookup
                    doc == BuildDescription(term, use_api, template, result)
                    path == OutputPath(key, term)
                IN  IF result.kind = "raise"
                    THEN /\ pc' = "aborted"
                         /\ last' = [lookup |-> result.failure, wrote |-> FALSE,
                                     key |-> key, term |-> term]
                         /\ UNCHANGED <<dirs, files, writes>>
                    ELSE /\ pc' = pc
                         /\ dirs' = dirs \cup {key}
                         /\ files' = (path :> doc) @@ files
                         /\ writes' = writes + 1
                         /\ last' = [lookup |-> result.failure, wrote |-> TRUE,
                                     key |-> key, term |-> term, path |-> path, doc |-> doc]
    /\ UNCHANGED <<report, use_api, template, printed>>
    /\ UNCHANGED <<errors, collectVars, apiVars>>

\* print(f"JSON-LD files created: {len(terms_counter.keys())}")
GeneratePrint ==
    /\ pc = "generate"
    /\ todo = <<>>
    /\ printed' = Append(printed, Cardinality(DOMAIN terms_counter))
    /\ pc' = "printed"
    /\ UNCHANGED <<report, use_api, template, todo, terms_counter, dirs, files, writes, last>>
    /\ UNCHANGED <<errors, collectVars, apiVars>>

GenKeys == {"licenses", "keywords"}
GenTerms == {tMitLicense, tCcBy40, tADotB, tASpaceB, tASpaceBUpper}

\* reports as collect_values builds them: count is len(values), values are distinct
NoRepeat(items) == \A i, j \in DOMAIN items : items[i] = items[j] => i = j

InitGen ==
    /\ pc = "generate"
    /\ \E items \in ItemSeqs(GenKeys, GenTerms, MaxGenTerms) :
         NoRepeat(items) /\ report = ReportOf(items, {})
    /\ use_api \in BOOLEAN
    /\ template \in Templates
    /\ todo = Items(report)
    /\ terms_counter = EmptyFn
    /\ dirs = {}
    /\ files = EmptyFn
    /\ writes = 0
    /\ last = NoIteration
    /\ printed = <<>>
    /\ errors = Idle
    /\ walk = Idle /\ flags = Idle /\ idx = Idle /\ acc = Idle
    /\ dats_files_count = Idle /\ lastFile = Idle /\ ret = Idle
    /\ apiIn = Idle /\ apiOut = Idle

NextGen == GenerateTerm \/ GeneratePrint

SpecGen == InitGen /\ [][NextGen]_vars

(***************************************************************************)
(* Properties                                                              *)
(***************************************************************************)
NoRepeats(s) == \A i, j \in DOMAIN s : s[i] = s[j] => i = j
SameAsOfTemplate(doc) ==
    /\ "sameAs" \in DOMAIN doc <=> "sameAs" \in DOMAIN template
    /\ "sameAs" \in DOMAIN doc => doc.sameAs = template.sameAs

\* C1: for a report in which every count is len(values), find_duplicates returns
\* exactly one message per (property, lowercased form) shared by two or more
\* values, naming the property and listing exactly those values, and nothing else
\* (so no message for a property whose values are distinct after lowercasing).
C1_OneMessagePerGroup ==
    (pc = "found" /\ \A k \in DOMAIN report : report[k].count = Len(report[k].values)) =>
        LET Members(k, l) == SelectSeq(report[k].values, LAMBDA v : Lower(v) = l)
            Groups == {g \in UNION {{<<k, Lower(v)>> : v \in Range(report[k].values)} :
                                    k \in DOMAIN report} :
                         Len(Members(g[1], g[2])) >= 2}
        IN  /\ Len(errors) = Cardinality(Groups)
            /\ \A g \in Groups : \E i \in DOMAIN errors :
                   /\ Lower(errors[i].property) = KeyChars(g[1])
                   /\ errors[i].terms = Members(g[1], g[2])

C1_Witness ==
    /\ pc = "found"
    /\ report = [k \in {"privacy"} |-> [count |-> 3, values |-> <<tMale, tmale, tMALE>>]]
    /\ Len(errors) = 1
    /\ errors[1].terms = <<tMale, tmale, tMALE>>

\* C2 as stated: with the lookup disabled every file written for value v of
\* property k is at <k>/<sanitized title-case of v>.jsonld, has label v lowercased
\* and has no sameAs field, whatever the template contains.
C2_Original ==
    (use_api = FALSE /\ last.wrote) =>
        /\ last.path = OutputPath(last.key, last.term)
        /\ last.doc.label = Lower(last.term)
        /\ "sameAs" \notin DOMAIN last.doc

\* C2 amended: with the lookup disabled every file written for value v of property
\* k is at <k>/<sanitized title-case of v>.jsonld, has label v lowercased, and its
\* sameAs field is the template's: absent when the template has none, the
\* template's value otherwise. "MIT License" under licenses gives
\* licenses/MitLicense.jsonld with label "mit license".
C2_SameAsFromTemplate ==
    (use_api = FALSE /\ last.wrote) =>
        /\ last.path = OutputPath(last.key, last.term)
        /\ last.path \in DOMAIN files /\ files[last.path] = last.doc
        /\ last.doc.label = Lower(last.term)
        /\ SameAsOfTemplate(last.doc)
        /\ (last.term = tMitLicense /\ last.key = "licenses") =>
              /\ last.path = <<"licenses", <<"M","i","t","L","i","c","e","n","s","e",
                                             ".","j","s","o","n","l","d">> >>
              /\ last.doc.label = <<"m","i","t"," ","l","i","c","e","n","s","e">>

C2_Witness ==
    /\ use_api = FALSE
    /\ template = TemplateSameAs
    /\ last.wrote
    /\ last.term = tMitLicense /\ last.key = "licenses"
    /\ last.doc.sameAs = "template"

\* C3 as stated: the filename keeps hyphens, so "CC-BY 4.0" gives "Cc-By40".
C3_Original ==
    (last.wrote /\ last.term = tCcBy40) =>
        last.path[2] = <<"C","c","-","B","y","4","0">> \o JsonldExt

\* C3 amended: the filename is the term title-cased with every character that is
\* not alphanumeric removed (spaces, periods and hyphens alike), so "CC-BY 4.0"
\* gives "CcBy40".
C3_OnlyAlphanumerics ==
    last.wrote =>
        LET name == last.path[2]
            stem == SubSeq(name, 1, Len(name) - Len(JsonldExt))
        IN  /\ name = stem \o JsonldExt
            /\ \A i \in DOMAIN stem : IsAlnum(stem[i])
            /\ Lower(stem) = Lower(SelectSeq(last.term, IsAlnum))
            /\ LET term == last.term
                   pos == SelectSeq([i \in DOMAIN term |-> i], LAMBDA i : IsAlnum(term[i]))
               IN  /\ Len(stem) = Len(pos)
                   /\ \A j \in DOMAIN pos :
                          IsUpper(stem[j]) <=>
                              /\ IsCased(term[pos[j]])
                              /\ ~(pos[j] > 1 /\ IsCased(term[pos[j] - 1]))
            /\ last.term = tCcBy40 => stem = <<"C","c","B","y","4","0">>

C3_Witness ==
    /\ last.wrote
    /\ last.term = tCcBy40
    /\ last.path[2] = <<"C","c","B","y","4","0",".","j","s","o","n","l","d">>

\* C4: the count printed at the end of generate_jsonld_files is the number of
\* output files written during the run (counted as distinct files, or as writes).
C4_CountIsFilesWritten ==
    pc = "printed" => (printed = <<Cardinality(DOMAIN files)>> \/ printed = <<writes>>)

\* C5 as stated: a descriptor lacking any required field fails the whole pass,
\* whichever properties are enabled.
C5_Original ==
    (lastFile # NoFile /\ \E k \in KeySet \ {"privacy", "is_about"} :
                              FieldOf(k) \notin DOMAIN lastFile) =>
        (pc = "raised" /\ ret = NoReturn)

\* C5 amended: a descriptor lacking a required field (types, licenses,
\* distributions, keywords) whose property is enabled fails the whole pass with no
\* report and no file count, however many files came before it; a pass fails only
\* on such a file or on a malformed entry of an enabled property, so a file that
\* lacks only fields of disabled properties is processed.
C5_EnabledRequiredField ==
    LET required == KeySet \ {"privacy", "is_about"}
        missing == {k \in required : FieldOf(k) \notin DOMAIN lastFile}
    IN  lastFile # NoFile =>
            /\ (\E k \in missing : flags[k]) => (pc = "raised" /\ ret = NoReturn)
            /\ pc = "raised" =>
                  /\ ret = NoReturn
                  /\ \/ \E k \in missing : flags[k]
                     \/ /\ flags["licenses"]
                        /\ "licenses" \in DOMAIN lastFile
                        /\ \E i \in DOMAIN lastFile.licenses :
                               "name" \notin DOMAIN lastFile.licenses[i]

C5_Witness ==
    /\ pc = "raised"
    /\ lastFile = dNoTypes
    /\ flags["types"]
    /\ dats_files_count = 3
    /\ acc["licenses"] # <<>>
    /\ ret = NoReturn

\* C6: for every key of the report collect_values returns, count is the number of
\* entries of values and no two entries of values are equal.
C6_CountAndUnique ==
    ret.returned =>
        \A k \in DOMAIN ret.report :
            /\ ret.report[k].count = Len(ret.report[k].values)
            /\ NoRepeats(ret.report[k].values)

C6_Witness ==
    /\ ret.returned
    /\ dats_files_count = 2
    /\ lastFile = dFull
    /\ {"licenses", "keywords"} \subseteq DOMAIN ret.report
    /\ ret.report["licenses"] = [count |-> 2, values |-> <<tMitLicense, tCcBy40>>]
    /\ ret.report["keywords"].count = 3

\* C7: when collect_values returns, the file count is the number of directories
\* of the walk that hold a DATS.json, whatever the flags and the values.
C7_FileCountIsN ==
    pc = "returned" =>
        /\ ret.returned
        /\ ret.count = Cardinality({i \in DOMAIN walk : walk[i]})

C7_Witness ==
    /\ pc = "returned"
    /\ walk = <<TRUE, FALSE, TRUE>>
    /\ ret.count = 2
    /\ ~flags["types"]

\* C8 as stated: a successful lookup returns the iri of the first entry whose
\* curie contains the ILX marker, compared case-insensitively, and the sentinel
\* only when the list is empty.
C8_Original ==
    (pc = "done" /\ apiOut.kind = "return" /\ apiOut.failure = "none") =>
        LET ids == apiIn.existing_ids
            M == {n \in DOMAIN ids : /\ "curie" \in DOMAIN ids[n]
                                     /\ Contains(Lower(IlxMarker), Lower(ids[n].curie))}
        IN  /\ M # {} => apiOut.value = ids[CHOOSE n \in M : \A m \in M : n <= m].iri
            /\ apiOut.value = NoMatchFound => ids = <<>>

\* C8 amended: a successful lookup returns the iri of the last entry whose curie
\* contains "ILX:" in exactly that case, the empty string when the list has
\* entries but none of them matches, and the sentinel exactly when the list is
\* empty.
C8_LastCaseSensitiveMatch ==
    (pc = "done" /\ apiOut.kind = "return" /\ apiOut.failure = "none") =>
        LET ids == apiIn.existing_ids
            M == {n \in DOMAIN ids : /\ "curie" \in DOMAIN ids[n]
                                     /\ Contains(<<"I","L","X",":">>, ids[n].curie)}
        IN  IF ids = <<>> THEN apiOut.value = NoMatchFound
            ELSE IF M = {} THEN apiOut.value = EmptyStr
            ELSE apiOut.value = ids[CHOOSE n \in M : \A m \in M : m <= n].iri

C8_Witness ==
    /\ pc = "done"
    /\ apiIn.existing_ids = <<eIlx1, eIlx2>>
    /\ apiOut.kind = "return"
    /\ apiOut.value = "iri2"

\* C9 as stated: with the lookup enabled, a lookup that fails with any
\* transport-level or HTTP error is caught; a file is still written for the term
\* and the run does not abort.
C9_Original ==
    (use_api = TRUE /\ last.lookup \in {"HTTPError", "ConnectionError"}) =>
        (last.wrote /\ pc # "aborted")

\* C9 amended: with the lookup enabled, a lookup that fails with an HTTP error
\* status (requests' HTTPError, the only exception caught) is logged, a file is
\* still written for the term and the run goes on; a run that reaches its end has
\* written a file for every term. A transport-level error such as a connection
\* error is not caught: it aborts the run with no file written for the term.
C9_HttpErrorOnly ==
    /\ last.lookup = "HTTPError" =>
          /\ last.wrote /\ pc # "aborted"
          /\ last.path \in DOMAIN files /\ files[last.path] = last.doc
    /\ last.lookup = "ConnectionError" => (~last.wrote /\ pc = "aborted")
    /\ pc = "printed" =>
          \A i \in DOMAIN Items(report) :
              OutputPath(Items(report)[i][1], Items(report)[i][2]) \in DOMAIN files

C9_Witness ==
    /\ pc = "printed"
    /\ use_api = TRUE
    /\ last.lookup = "none"
    /\ Cardinality(DOMAIN files) = 2
    /\ \E p \in DOMAIN files : files[p].sameAs = None

\* C10 as stated: when the failed lookup is swallowed, sameAs is not assigned: the
\* written document has the sameAs of the template, if any, and none otherwise.
C10_Original ==
    (last.lookup = "HTTPError" /\ last.wrote) => SameAsOfTemplate(last.doc)

\* C10 amended: when the failed lookup is swallowed, generate_jsonld_files assigns
\* sameAs the None that get_api_response returned: the written document has a
\* sameAs field, holding None (null), in place of any sameAs of the template.
C10_SameAsIsNone ==
    last.lookup = "HTTPError" =>
        /\ last.wrote
        /\ "sameAs" \in DOMAIN last.doc
        /\ last.doc.sameAs = None
        /\ files[last.path] = last.doc

C10_Witness ==
    /\ last.lookup = "HTTPError"
    /\ last.wrote
    /\ template = TemplateSameAs
    /\ files[last.path].sameAs = None

====
